---- MODULE Spec2Model ----
(***************************************************************************)
(* Frame loop of vulkano-test/src/main.rs: the winit ApplicationHandler    *)
(* `App` (resumed / window_event), the window system that resizes the      *)
(* window and queues Resized events, and the GPU / presentation engine     *)
(* that works through the submitted future chains asynchronously.          *)
(***************************************************************************)
EXTENDS Integers, Sequences, FiniteSets, TLC

\* Number of RedrawRequested events the model follows.
MaxTicks == 3
\* Number of images of a swapchain (surface_capabilities.min_image_count).
NumImages == 3

\* Window inner sizes the window system may report: minimised, one
\* dimension collapsed, and the regular size.
Extents == {<<0, 0>>, <<0, 600>>, <<800, 600>>}

\* The extents of the end-to-end scenario of four ticks.
ScenarioExtents == << <<800, 600>>, <<800, 600>>, <<0, 0>>, <<800, 600>> >>

VARIABLES
    phase,               \* "created" | "running" | "exiting" | "crashed",
                         \* or the field of DropOrder dropped last
    window_extent,       \* self.window.inner_size()
    resizedQueued,       \* a WindowEvent::Resized is queued and not yet delivered
    swapchain,           \* self.swapchain
    images,              \* self.images
    previous_frame_end,  \* self.previous_frame_end
    recreate_swapchain,  \* self.recreate_swapchain
    frames,              \* the unfinished work the queue holds of each tick
    retained,            \* frames whose resources the held token still tracks
    tick,                \* number of RedrawRequested events handled so far
    lastTick             \* what the latest RedrawRequested did

vars == <<phase, window_extent, resizedQueued, swapchain, images,
          previous_frame_end, recreate_swapchain, frames, retained, tick,
          lastTick>>

\* Frames are numbered by the tick that submits them.
Ticks ==
    1..(IF MaxTicks > Len(ScenarioExtents)
        THEN MaxTicks ELSE Len(ScenarioExtents))

-----------------------------------------------------------------------------
(* Values *)

\* Option::None of previous_frame_end, sync::now(device), and the fence
\* future returned by then_signal_fence_and_flush for the frame of tick n.
NoToken == [kind |-> "none", frame |-> 0]
NowToken == [kind |-> "now", frame |-> 0]
FenceToken(n) == [kind |-> "fence", frame |-> n]

NoSwapchain == [gen |-> 0, extent |-> <<0, 0>>]
NoImages == <<>>
NewImages(gen) == [i \in 1..NumImages |-> [gen |-> gen, index |-> i - 1]]

\* frames[n] while the queue holds nothing of tick n: nothing was submitted,
\* or all of it has finished.
NoFrame ==
    [stage |-> "none", target |-> [gen |-> 0, index |-> 0], presentGen |-> 0,
     presentIndex |-> 0, prev |-> NoToken, acquired |-> FALSE,
     present |-> FALSE]

NoTick == [outcome |-> "none", suboptimal |-> FALSE, calls |-> <<>>]

\* The fields of struct App that own something, in declaration order, which
\* is the order in which they are dropped when `app` goes out of scope.
DropOrder ==
    <<"window", "device", "queue", "swapchain", "images",
      "command_buffer_allocator", "previous_frame_end">>

\* phase while `app` is being dropped is the field dropped last; Dropped(f)
\* holds once field f has been dropped.
Dropped(f) ==
    \E i \in 1..Len(DropOrder), j \in 1..Len(DropOrder) :
        i <= j /\ DropOrder[i] = f /\ DropOrder[j] = phase

\* image_extent.contains(&0); ZeroExtentBoth is the faulty guard that skips
\* only a window with both dimensions zero.
ZeroExtentBoth(e) == e[1] = 0 /\ e[2] = 0
ZeroExtent(e) == e[1] = 0 \/ e[2] = 0

\* A token is satisfied once the fence it stands for has been signalled,
\* which ends the frame's work on the queue.
TokenSatisfied(t) ==
    \/ t.kind = "now"
    \/ t.kind = "fence" /\ frames[t.frame].stage = "none"

-----------------------------------------------------------------------------
Init ==
    /\ phase = "created"
    /\ window_extent = <<0, 0>>
    /\ resizedQueued = FALSE
    /\ swapchain = NoSwapchain
    /\ images = NoImages
    /\ previous_frame_end = NoToken
    /\ recreate_swapchain = FALSE
    /\ frames = [n \in Ticks |-> NoFrame]
    /\ retained = {}
    /\ tick = 0
    /\ lastTick = NoTick

\* App::resumed: window, device, swapchain of the window's size, sync::now.
ResumedOk ==
    /\ phase = "created"
    /\ \E e \in Extents, q \in BOOLEAN :
        /\ ~(e[1] = 0 \/ e[2] = 0)
        /\ window_extent' = e
        /\ resizedQueued' = q
        /\ swapchain' = [gen |-> 1, extent |-> e]
    /\ images' = NewImages(1)
    /\ previous_frame_end' = NowToken
    /\ phase' = "running"
    /\ UNCHANGED <<recreate_swapchain, frames, retained, tick, lastTick>>

\* One of the unwrap()/expect() calls of App::resumed panics.
ResumedPanic ==
    /\ phase = "created"
    /\ phase' = "crashed"
    /\ UNCHANGED <<window_extent, resizedQueued, swapchain, images,
                   previous_frame_end, recreate_swapchain, frames, retained,
                   tick, lastTick>>

-----------------------------------------------------------------------------
(* The window system *)

\* The window is resized (or minimised): inner_size() changes at once and a
\* Resized event is queued for the handler.
WindowResize ==
    /\ phase = "running"
    /\ \E e \in Extents :
        /\ e # window_extent
        /\ window_extent' = e
    /\ resizedQueued' = TRUE
    /\ UNCHANGED <<phase, swapchain, images, previous_frame_end,
                   recreate_swapchain, frames, retained, tick, lastTick>>

\* WindowEvent::Resized(_) => self.recreate_swapchain = true; the faulty
\* variant flips the flag.
ResizedFlagFlipped(flag) == ~flag
ResizedFlag(flag) == TRUE

Resized ==
    /\ phase = "running"
    /\ resizedQueued
    /\ resizedQueued' = FALSE
    /\ recreate_swapchain' = ResizedFlag(recreate_swapchain)
    /\ UNCHANGED <<phase, window_extent, swapchain, images, previous_frame_end,
                   frames, retained, tick, lastTick>>

\* WindowEvent::CloseRequested => event_loop.exit()
CloseRequested ==
    /\ phase = "running"
    /\ phase' = "exiting"
    /\ UNCHANGED <<window_extent, resizedQueued, swapchain, images,
                   previous_frame_end, recreate_swapchain, frames, retained,
                   tick, lastTick>>

-----------------------------------------------------------------------------
(* WindowEvent::RedrawRequested *)

TickLog(outcome, sub, calls) ==
    [outcome |-> outcome, suboptimal |-> sub, calls |-> calls]

\* previous_frame_end.cleanup_finished(): drops what has already been
\* signalled, never waits. CleanupAll is the faulty reclamation that also
\* lets go of what the GPU has not finished.
CleanupAll(ret) == {}
CleanupFinished(ret) == {n \in ret : frames[n].stage # "none"}

\* if self.recreate_swapchain; NeedsRebuildNever is the faulty driver that
\* never takes the rebuild branch, NeedsRebuildAlways the one that takes it
\* in every tick.
NeedsRebuildNever(flag) == FALSE
NeedsRebuildAlways(flag) == TRUE
NeedsRebuild(flag) == flag

\* swapchain.recreate(SwapchainCreateInfo { image_extent, .. })
Recreate(sc, ext) == [gen |-> sc.gen + 1, extent |-> ext]

\* self.recreate_swapchain = false at the end of the rebuild branch;
\* RebuiltFlagKept is the faulty branch that leaves the request standing.
RebuiltFlagKept(flag) == flag
RebuiltFlag(flag) == FALSE

\* cleanup_finished, then the rebuild branch: the state the handler is in
\* when it reaches acquire_next_image.
Lifecycle ==
    IF NeedsRebuild(recreate_swapchain)
    THEN [swapchain |-> Recreate(swapchain, window_extent),
          images |-> NewImages(swapchain.gen + 1),
          recreate_swapchain |-> RebuiltFlag(recreate_swapchain),
          calls |-> <<"cleanup_finished", "recreate">>]
    ELSE [swapchain |-> swapchain,
          images |-> images,
          recreate_swapchain |-> recreate_swapchain,
          calls |-> <<"cleanup_finished">>]

\* The presentation engine has given the image of frame n back.
ImageReleased(n) == frames[n].stage \in {"none", "presented"}

\* acquire_next_image(swapchain, None) waits for an image that no earlier
\* frame of this swapchain still holds.
FreeImages(sc) ==
    {i \in 0..(NumImages - 1) :
        \A n \in Ticks :
            \/ frames[n].presentGen # sc.gen
            \/ frames[n].presentIndex # i
            \/ ImageReleased(n)}

\* The index acquire_next_image returns: the presentation engine hands out
\* the lowest free image; none while every image is held.
AcquiredImage(sc) ==
    {i \in FreeImages(sc) : \A j \in FreeImages(sc) : i <= j}

\* Err(Validated::Error(VulkanError::OutOfDate)) of acquire_next_image: the
\* flag is set and the token is left alone. The faulty variants leave the
\* flag as it was, and replace the token by sync::now.
AcquireOutOfDateFlagKept(flag) == flag
AcquireOutOfDateFlag(flag) == TRUE
AcquireOutOfDateTokenNow(token) == NowToken
AcquireOutOfDateToken(token) == token

\* Err(e) => panic!("failed to acquire next image: {e}"); the faulty variant
\* carries on.
AcquireErrorPhaseRunning == "running"
AcquireErrorPhase == "crashed"

\* if suboptimal { self.recreate_swapchain = true; }; SuboptimalIgnored is
\* the faulty driver that drops the signal.
SuboptimalIgnored(flag, suboptimal) == flag
SuboptimalFlag(flag, suboptimal) == flag \/ suboptimal

\* The three arms of `match future`. The faulty variants install sync::now
\* after a successful flush, and keep the fence of the abandoned chain after
\* an out-of-date one, or leave the flag as it was after an out-of-date one,
\* or install nothing after another error.
FlushOkTokenStale(n) == NowToken
FlushOkToken(n) == FenceToken(n)
FlushOutOfDateTokenKept(n) == FenceToken(n)
FlushOutOfDateToken(n) == NowToken
FlushOutOfDateFlagKept(flag) == flag
FlushOutOfDateFlag(flag) == TRUE
FlushErrorTokenNone(n) == NoToken
FlushErrorToken(n) == NowToken
FlushErrorPhase == "running"

\* What the chain of lines 280-290 hands to the queue for the tick's frame:
\* the framebuffer of the acquired index, built from self.images, and the
\* present request for that index on self.swapchain. NewFrameStale is the
\* faulty handler that keeps the image list it had before the rebuild.
NewFrameStale(L, idx, present) ==
    [stage |-> "submitted", target |-> images[idx + 1],
     presentGen |-> L.swapchain.gen, presentIndex |-> idx,
     prev |-> previous_frame_end, acquired |-> FALSE, present |-> present]
NewFrame(L, idx, present) ==
    [stage |-> "submitted", target |-> L.images[idx + 1],
     presentGen |-> L.swapchain.gen, presentIndex |-> idx,
     prev |-> previous_frame_end, acquired |-> FALSE, present |-> present]

\* A chain that fails is dropped inside then_signal_fence_and_flush, with the
\* token that was moved into it: destroying a GpuFuture blocks until the GPU
\* has finished what the future stands for, so nothing of the frames the
\* chain holds is left on the queue when the handler goes on.
DropChain(fr, held) == [n \in Ticks |-> IF n \in held THEN NoFrame ELSE fr[n]]

CallsToAcquire(L) == L.calls \o <<"acquire_next_image">>
CallsToRecord(L) == CallsToAcquire(L) \o <<"record">>
CallsToExecute(L) == CallsToRecord(L) \o <<"then_execute">>
CallsToFlush(L) ==
    CallsToExecute(L)
        \o <<"then_swapchain_present", "then_signal_fence_and_flush">>

RedrawGuard == phase = "running"

\* image_extent.contains(&0) => return
RedrawSkipped ==
    /\ RedrawGuard
    /\ ZeroExtent(window_extent)
    /\ tick' = tick + 1
    /\ lastTick' = TickLog("skipped", FALSE, <<>>)
    /\ UNCHANGED <<phase, window_extent, resizedQueued, swapchain, images,
                   previous_frame_end, recreate_swapchain, frames, retained>>

\* recreate(..).expect("failed to recreate swapchain") panics.
RedrawRebuildFailed ==
    /\ RedrawGuard
    /\ ~ZeroExtent(window_extent)
    /\ NeedsRebuild(recreate_swapchain)
    /\ phase' = "crashed"
    /\ retained' = CleanupFinished(retained)
    /\ tick' = tick + 1
    /\ lastTick' = TickLog("rebuildFailed", FALSE,
                           <<"cleanup_finished", "recreate">>)
    /\ UNCHANGED <<window_extent, resizedQueued, swapchain, images,
                   previous_frame_end, recreate_swapchain, frames>>

\* acquire_next_image returns OutOfDate: flag set, return.
RedrawAcquireOutOfDate ==
    /\ RedrawGuard
    /\ ~ZeroExtent(window_extent)
    /\ LET L == Lifecycle IN
        /\ swapchain' = L.swapchain
        /\ images' = L.images
        /\ recreate_swapchain' = AcquireOutOfDateFlag(L.recreate_swapchain)
        /\ previous_frame_end' = AcquireOutOfDateToken(previous_frame_end)
        /\ lastTick' = TickLog("acquireOutOfDate", FALSE, CallsToAcquire(L))
    /\ retained' = CleanupFinished(retained)
    /\ tick' = tick + 1
    /\ UNCHANGED <<phase, window_extent, resizedQueued, frames>>

\* acquire_next_image returns another error: panic.
RedrawAcquireFailed ==
    /\ RedrawGuard
    /\ ~ZeroExtent(window_extent)
    /\ LET L == Lifecycle IN
        /\ swapchain' = L.swapchain
        /\ images' = L.images
        /\ recreate_swapchain' = L.recreate_swapchain
        /\ lastTick' = TickLog("acquireFailed", FALSE, CallsToAcquire(L))
    /\ phase' = AcquireErrorPhase
    /\ retained' = CleanupFinished(retained)
    /\ tick' = tick + 1
    /\ UNCHANGED <<window_extent, resizedQueued, previous_frame_end, frames>>

\* One of the unwrap() calls of lines 222-278 panics while the command
\* buffer is built.
RedrawRecordFailed ==
    /\ RedrawGuard
    /\ ~ZeroExtent(window_extent)
    /\ LET L == Lifecycle IN
       \E idx \in AcquiredImage(L.swapchain), sub \in BOOLEAN :
        /\ swapchain' = L.swapchain
        /\ images' = L.images
        /\ recreate_swapchain' = SuboptimalFlag(L.recreate_swapchain, sub)
        /\ lastTick' = TickLog("recordFailed", sub, CallsToRecord(L))
    /\ phase' = "crashed"
    /\ retained' = CleanupFinished(retained)
    /\ tick' = tick + 1
    /\ UNCHANGED <<window_extent, resizedQueued, previous_frame_end, frames>>

\* then_execute(..).unwrap() panics; the token has been taken by then.
RedrawExecuteFailed ==
    /\ RedrawGuard
    /\ ~ZeroExtent(window_extent)
    /\ LET L == Lifecycle IN
       \E idx \in AcquiredImage(L.swapchain), sub \in BOOLEAN :
        /\ swapchain' = L.swapchain
        /\ images' = L.images
        /\ recreate_swapchain' = SuboptimalFlag(L.recreate_swapchain, sub)
        /\ lastTick' = TickLog("executeFailed", sub, CallsToExecute(L))
    /\ previous_frame_end' = NoToken
    /\ phase' = "crashed"
    /\ retained' = {}
    /\ tick' = tick + 1
    /\ UNCHANGED <<window_extent, resizedQueued, frames>>

\* The chain is flushed: Ok(future). What the handler does from the read of
\* inner_size() on, whatever happens to the window in the meantime.
SubmitPresented ==
    /\ RedrawGuard
    /\ ~ZeroExtent(window_extent)
    /\ LET L == Lifecycle IN
       \E idx \in AcquiredImage(L.swapchain), sub \in BOOLEAN :
        /\ swapchain' = L.swapchain
        /\ images' = L.images
        /\ recreate_swapchain' = SuboptimalFlag(L.recreate_swapchain, sub)
        /\ frames' = [frames EXCEPT
                        ![tick + 1] = NewFrame(L, idx, TRUE)]
        /\ lastTick' = TickLog("presented", sub, CallsToFlush(L))
    /\ previous_frame_end' = FlushOkToken(tick + 1)
    /\ retained' = CleanupFinished(retained) \cup {tick + 1}
    /\ tick' = tick + 1
    /\ UNCHANGED phase

\* The window keeps its size while the handler runs.
RedrawPresented ==
    /\ SubmitPresented
    /\ UNCHANGED <<window_extent, resizedQueued>>

\* The window system resizes the window after the handler has read
\* inner_size() and before it returns: the handler goes on with the size it
\* read, and the Resized event of the change is queued behind it.
RedrawPresentedResized ==
    /\ SubmitPresented
    /\ \E e \in Extents :
        /\ e # window_extent
        /\ window_extent' = e
    /\ resizedQueued' = TRUE

\* The flush reports OutOfDate: the present request was refused and the
\* chain is abandoned.
RedrawFlushOutOfDate ==
    /\ RedrawGuard
    /\ ~ZeroExtent(window_extent)
    /\ LET L == Lifecycle IN
       \E idx \in AcquiredImage(L.swapchain), sub \in BOOLEAN :
        /\ swapchain' = L.swapchain
        /\ images' = L.images
        /\ recreate_swapchain' =
              FlushOutOfDateFlag(SuboptimalFlag(L.recreate_swapchain, sub))
        /\ frames' = DropChain([frames EXCEPT
                                  ![tick + 1] = NewFrame(L, idx, FALSE)],
                               retained \cup {tick + 1})
        /\ lastTick' = TickLog("flushOutOfDate", sub, CallsToFlush(L))
    /\ previous_frame_end' = FlushOutOfDateToken(tick + 1)
    /\ retained' = {}
    /\ tick' = tick + 1
    /\ UNCHANGED <<phase, window_extent, resizedQueued>>

\* The flush reports another error (device lost, out of memory, ...): the
\* chain is abandoned, the handler prints the error, installs sync::now and
\* returns.
RedrawFlushFailed ==
    /\ RedrawGuard
    /\ ~ZeroExtent(window_extent)
    /\ LET L == Lifecycle IN
       \E idx \in AcquiredImage(L.swapchain), sub \in BOOLEAN :
        /\ swapchain' = L.swapchain
        /\ images' = L.images
        /\ recreate_swapchain' = SuboptimalFlag(L.recreate_swapchain, sub)
        /\ frames' = DropChain(frames, retained)
        /\ lastTick' = TickLog("flushFailed", sub, CallsToFlush(L))
    /\ previous_frame_end' = FlushErrorToken(tick + 1)
    /\ phase' = FlushErrorPhase
    /\ retained' = {}
    /\ tick' = tick + 1
    /\ UNCHANGED <<window_extent, resizedQueued>>

-----------------------------------------------------------------------------
(* The GPU and the presentation engine *)

\* The device works as long as the process that owns it runs and holds a
\* reference to it or to one of its children.
DeviceAlive ==
    \/ phase \in {"running", "exiting"}
    \/ \E i \in 1..(Len(DropOrder) - 1) : phase = DropOrder[i]

\* The presentation engine signals the acquire future of frame n.
GpuAcquireSignal(n) ==
    /\ DeviceAlive
    /\ frames[n].stage = "submitted"
    /\ ~frames[n].acquired
    /\ frames' = [frames EXCEPT ![n].acquired = TRUE]
    /\ UNCHANGED <<phase, window_extent, resizedQueued, swapchain, images,
                   previous_frame_end, recreate_swapchain, retained, tick,
                   lastTick>>

\* previous_frame_end.join(acquire_future).then_execute(..): the command
\* buffer runs after both joined futures. CanExecuteNoAcquireWait is the
\* chain without the join of the acquire future.
CanExecuteNoAcquireWait(n) == TokenSatisfied(frames[n].prev)
CanExecute(n) == frames[n].acquired /\ TokenSatisfied(frames[n].prev)

GpuExecute(n) ==
    /\ DeviceAlive
    /\ frames[n].stage = "submitted"
    /\ CanExecute(n)
    /\ frames' = [frames EXCEPT ![n].stage = "executing"]
    /\ UNCHANGED <<phase, window_extent, resizedQueued, swapchain, images,
                   previous_frame_end, recreate_swapchain, retained, tick,
                   lastTick>>

GpuFinish(n) ==
    /\ DeviceAlive
    /\ frames[n].stage = "executing"
    /\ frames' = IF frames[n].present
                 THEN [frames EXCEPT ![n].stage = "executed"]
                 ELSE [frames EXCEPT ![n] = NoFrame]
    /\ UNCHANGED <<phase, window_extent, resizedQueued, swapchain, images,
                   previous_frame_end, recreate_swapchain, retained, tick,
                   lastTick>>

\* .then_swapchain_present(..): the image is presented after the execution.
CanPresent(n) == frames[n].stage = "executed"

GpuPresent(n) ==
    /\ DeviceAlive
    /\ frames[n].present
    /\ CanPresent(n)
    /\ frames' = [frames EXCEPT ![n].stage = "presented"]
    /\ UNCHANGED <<phase, window_extent, resizedQueued, swapchain, images,
                   previous_frame_end, recreate_swapchain, retained, tick,
                   lastTick>>

\* .then_signal_fence_and_flush(): the fence is signalled after the present.
GpuSignalFence(n) ==
    /\ DeviceAlive
    /\ frames[n].stage = "presented"
    /\ frames' = [frames EXCEPT ![n] = NoFrame]
    /\ UNCHANGED <<phase, window_extent, resizedQueued, swapchain, images,
                   previous_frame_end, recreate_swapchain, retained, tick,
                   lastTick>>

-----------------------------------------------------------------------------
(* The end of main *)

\* run_app returns after event_loop.exit() and `app` goes out of scope: its
\* fields are dropped one by one in declaration order. Neither main nor the
\* handler waits for the queue or for the held token before. The fields but
\* the last are reference-counted handles, whose drop gives up a reference;
\* the last is the held token, a GpuFuture, whose drop blocks until the GPU
\* has finished the frames it stands for.
DropField(i) ==
    /\ phase = IF i = 1 THEN "exiting" ELSE DropOrder[i - 1]
    /\ DropOrder[i] = "previous_frame_end"
         => \A n \in retained : frames[n].stage = "none"
    /\ phase' = DropOrder[i]
    /\ previous_frame_end' =
          IF DropOrder[i] = "previous_frame_end"
          THEN NoToken ELSE previous_frame_end
    /\ retained' = IF DropOrder[i] = "previous_frame_end" THEN {} ELSE retained
    /\ UNCHANGED <<window_extent, resizedQueued, swapchain, images,
                   recreate_swapchain, frames, tick, lastTick>>

DropApp == \E i \in 1..Len(DropOrder) : DropField(i)

-----------------------------------------------------------------------------
Gpu ==
    \E n \in Ticks :
        \/ GpuAcquireSignal(n)
        \/ GpuExecute(n)
        \/ GpuFinish(n)
        \/ GpuPresent(n)
        \/ GpuSignalFence(n)

Next ==
    \/ ResumedOk
    \/ ResumedPanic
    \/ WindowResize
    \/ Resized
    \/ CloseRequested
    \/ tick < MaxTicks /\ RedrawSkipped
    \/ tick < MaxTicks /\ RedrawRebuildFailed
    \/ tick < MaxTicks /\ RedrawAcquireOutOfDate
    \/ tick < MaxTicks /\ RedrawAcquireFailed
    \/ tick < MaxTicks /\ RedrawRecordFailed
    \/ tick < MaxTicks /\ RedrawExecuteFailed
    \/ tick < MaxTicks /\ RedrawPresented
    \/ tick < MaxTicks /\ RedrawFlushOutOfDate
    \/ tick < MaxTicks /\ RedrawFlushFailed
    \/ Gpu

Spec == Init /\ [][Next]_vars

-----------------------------------------------------------------------------
(* The end-to-end scenario: the window takes the sizes of ScenarioExtents,  *)
(* one per tick, and neither the provider nor the recorder fails.           *)

InScenario ==
    /\ tick < Len(ScenarioExtents)
    /\ window_extent = ScenarioExtents[tick + 1]

ScenarioResumed == ResumedOk /\ window_extent' = ScenarioExtents[1]

ScenarioResize ==
    /\ tick < Len(ScenarioExtents)
    /\ WindowResize
    /\ window_extent' = ScenarioExtents[tick + 1]

ScenarioRedrawSkipped == InScenario /\ RedrawSkipped

ScenarioRedrawPresented == InScenario /\ RedrawPresented

ScenarioNext ==
    \/ ScenarioResumed
    \/ ScenarioResize
    \/ Resized
    \/ ScenarioRedrawSkipped
    \/ ScenarioRedrawPresented
    \/ Gpu

ScenarioSpec == Init /\ [][ScenarioNext]_vars

-----------------------------------------------------------------------------
(* The window resized under a running handler: the runs in which neither    *)
(* the provider nor the recorder fails, and the window system may resize    *)
(* the window between the handler's read of inner_size() and its return.    *)

ResizeRaceNext ==
    \/ ResumedOk
    \/ WindowResize
    \/ Resized
    \/ tick < MaxTicks /\ RedrawSkipped
    \/ tick < MaxTicks /\ RedrawPresented
    \/ tick < MaxTicks /\ RedrawPresentedResized
    \/ Gpu

ResizeRaceSpec == Init /\ [][ResizeRaceNext]_vars

-----------------------------------------------------------------------------
(* The runs in which two rebuild signals meet: the first tick presents from *)
(* a suboptimal acquire, the Resized event the window system queued when    *)
(* the window was created is delivered after that tick, and the ticks that  *)
(* follow may end in any way.                                               *)

BothSignalsResumed == ResumedOk /\ resizedQueued'

BothSignalsSuboptimal == tick = 0 /\ RedrawPresented /\ lastTick'.suboptimal

BothSignalsResized == tick = 1 /\ Resized

BothSignalsTick == tick >= 1 /\ tick < MaxTicks /\ ~resizedQueued

BothSignalsNext ==
    \/ BothSignalsResumed
    \/ BothSignalsSuboptimal
    \/ BothSignalsResized
    \/ BothSignalsTick /\ RedrawRebuildFailed
    \/ BothSignalsTick /\ RedrawAcquireOutOfDate
    \/ BothSignalsTick /\ RedrawAcquireFailed
    \/ BothSignalsTick /\ RedrawRecordFailed
    \/ BothSignalsTick /\ RedrawExecuteFailed
    \/ BothSignalsTick /\ RedrawPresented
    \/ BothSignalsTick /\ RedrawFlushOutOfDate
    \/ BothSignalsTick /\ RedrawFlushFailed
    \/ Gpu

BothSignalsSpec == Init /\ [][BothSignalsNext]_vars

-----------------------------------------------------------------------------
(* The runs in which only an out-of-date result asks for a rebuild: no      *)
(* Resized event is delivered and no acquire reports suboptimal.            *)

OutOfDatePresented == RedrawPresented /\ ~lastTick'.suboptimal

OutOfDateFlush == RedrawFlushOutOfDate /\ ~lastTick'.suboptimal

OutOfDateNext ==
    \/ ResumedOk
    \/ WindowResize
    \/ CloseRequested
    \/ tick < MaxTicks /\ RedrawSkipped
    \/ tick < MaxTicks /\ RedrawRebuildFailed
    \/ tick < MaxTicks /\ RedrawAcquireOutOfDate
    \/ tick < MaxTicks /\ OutOfDatePresented
    \/ tick < MaxTicks /\ OutOfDateFlush
    \/ Gpu

OutOfDateSpec == Init /\ [][OutOfDateNext]_vars

-----------------------------------------------------------------------------
(* The runs that end with the window closed: frames are presented, the      *)
(* window is closed, run_app returns and main drops `app`.                  *)

TeardownNext ==
    \/ ResumedOk
    \/ Resized
    \/ tick < MaxTicks /\ RedrawAcquireOutOfDate
    \/ tick < MaxTicks /\ RedrawPresented
    \/ CloseRequested
    \/ DropApp
    \/ Gpu

TeardownSpec == Init /\ [][TeardownNext]_vars
-----------------------------------------------------------------------------
(* Properties *)

Has(calls, c) == \E i \in 1..Len(calls) : calls[i] = c

Before(calls, a, b) ==
    \E i \in 1..Len(calls), j \in 1..Len(calls) :
        i < j /\ calls[i] = a /\ calls[j] = b

\* A step that handles one RedrawRequested event.
TickStep == tick' = tick + 1

\* C1: a RedrawRequested that finds a zero width or height calls neither the
\* provider nor the recorder, rebuilds nothing, and leaves the held token,
\* the swapchain, the images and the rebuild-pending flag as they were.
C1_ZeroExtentTickDoesNothing ==
    [][(TickStep /\ (window_extent[1] = 0 \/ window_extent[2] = 0))
        => /\ lastTick'.calls = <<>>
           /\ previous_frame_end' = previous_frame_end
           /\ swapchain' = swapchain
           /\ images' = images
           /\ recreate_swapchain' = recreate_swapchain
           /\ frames' = frames]_vars

\* A tick was skipped at a collapsed height while a rebuild was pending and
\* a fence token was held.
C1_Witness ==
    /\ lastTick.outcome = "skipped"
    /\ window_extent = <<0, 600>>
    /\ recreate_swapchain
    /\ previous_frame_end.kind = "fence"

\* C2: after a tick whose acquire returned OutOfDate nothing was recorded,
\* submitted or presented for that tick, and the rebuild-pending flag is set
\* in every state up to the start of the next tick.
C2_AcquireOutOfDateSkipsFrame ==
    lastTick.outcome = "acquireOutOfDate"
        => /\ ~Has(lastTick.calls, "record")
           /\ ~Has(lastTick.calls, "then_execute")
           /\ ~Has(lastTick.calls, "then_swapchain_present")
           /\ ~Has(lastTick.calls, "then_signal_fence_and_flush")
           /\ frames[tick].stage = "none"
           /\ recreate_swapchain

\* The acquire went out of date right after the tick's own rebuild had
\* cleared the flag.
C2_Witness ==
    /\ lastTick.outcome = "acquireOutOfDate"
    /\ Has(lastTick.calls, "recreate")
    /\ recreate_swapchain

\* C3: after a tick whose chain failed with OutOfDate the held token is a
\* sync::now token, not the fence of the abandoned submission, and the
\* rebuild-pending flag is set, in every state up to the start of the next
\* tick.
C3_FlushOutOfDateInstallsFallback ==
    lastTick.outcome = "flushOutOfDate"
        => /\ previous_frame_end.kind = "now"
           /\ previous_frame_end # [kind |-> "fence", frame |-> tick]
           /\ recreate_swapchain

\* The chain of a tick that had rebuilt went out of date: sync::now is held
\* and the next rebuild is pending.
C3_Witness ==
    /\ lastTick.outcome = "flushOutOfDate"
    /\ Has(lastTick.calls, "recreate")
    /\ previous_frame_end.kind = "now"
    /\ recreate_swapchain

\* C4: a tick that starts with no rebuild pending and whose acquire reports
\* suboptimal does not rebuild, records a command buffer and chains execute
\* and present for the index it acquired from the swapchain it started with,
\* and leaves the rebuild pending; the pending rebuild survives every event
\* and skipped tick, and the next tick with a non-zero extent rebuilds first
\* thing after cleanup_finished, before its acquire.
C4_SuboptimalPresentsThenRebuilds ==
    [][IF TickStep /\ ~(window_extent[1] = 0 \/ window_extent[2] = 0)
       THEN /\ (~recreate_swapchain /\ lastTick'.suboptimal /\ phase' = "running")
                => /\ ~Has(lastTick'.calls, "recreate")
                   /\ swapchain' = swapchain
                   /\ images' = images
                   /\ Before(lastTick'.calls, "acquire_next_image", "record")
                   /\ Before(lastTick'.calls, "record", "then_execute")
                   /\ Before(lastTick'.calls, "then_execute",
                             "then_swapchain_present")
                   /\ lastTick'.outcome = "presented"
                        => /\ frames'[tick'].stage = "submitted"
                           /\ frames'[tick'].presentGen = swapchain.gen
                           /\ frames'[tick'].presentIndex
                                \in AcquiredImage(swapchain)
                           /\ frames'[tick'].target
                                = images[frames'[tick'].presentIndex + 1]
                   /\ lastTick'.outcome = "presented" => frames'[tick'].present
                   /\ recreate_swapchain'
            /\ recreate_swapchain
                => /\ Len(lastTick'.calls) >= 2
                   /\ lastTick'.calls[1] = "cleanup_finished"
                   /\ lastTick'.calls[2] = "recreate"
       ELSE recreate_swapchain => recreate_swapchain']_vars

\* A frame went to the queue from a suboptimal acquire without a rebuild,
\* and the rebuild is now pending.
C4_Witness ==
    /\ lastTick.outcome = "presented"
    /\ lastTick.suboptimal
    /\ ~Has(lastTick.calls, "recreate")
    /\ frames[tick].stage = "submitted"
    /\ recreate_swapchain

\* C5: after a tick whose acquire and chain succeed the held token is the
\* fence of that tick's own frame.
C5_TokenIsOwnFrame ==
    lastTick.outcome = "presented"
        => previous_frame_end = [kind |-> "fence", frame |-> tick]

\* Two consecutive frames, the second chained on the token of the first.
C5_Witness ==
    /\ tick >= 2
    /\ lastTick.outcome = "presented"
    /\ frames[tick].stage # "none"
    /\ frames[tick].prev = [kind |-> "fence", frame |-> tick - 1]
    /\ previous_frame_end = [kind |-> "fence", frame |-> tick]

\* C6: a chain that fails with an error other than OutOfDate ends the frame
\* loop.
C6_ChainErrorIsFatal ==
    lastTick.outcome \in {"executeFailed", "flushFailed"} => phase = "crashed"

\* C7 (as claimed): after a tick whose acquire returned OutOfDate the held
\* token is a sync::now token.
C7_AcquireOutOfDateInstallsFallback ==
    lastTick.outcome = "acquireOutOfDate" => previous_frame_end.kind = "now"

\* C7 (amended): a tick whose acquire returns OutOfDate leaves the held token
\* untouched and sets the rebuild-pending flag.
C7_AcquireOutOfDateKeepsToken ==
    [][(TickStep /\ lastTick'.outcome = "acquireOutOfDate")
        => /\ previous_frame_end' = previous_frame_end
           /\ recreate_swapchain']_vars

\* The fence of an earlier frame is still held after the failed acquire.
C7_Witness ==
    /\ lastTick.outcome = "acquireOutOfDate"
    /\ previous_frame_end.kind = "fence"

\* Frame m went to the queue with a present request that has not completed.
Unpresented(m) ==
    /\ frames[m].present
    /\ frames[m].stage \in {"submitted", "executing", "executed"}

\* C8: while the queue holds work of frame n, every frame up to n-2 has
\* completed its presentation.
C8_AtMostOneFrameInFlight ==
    \A n \in Ticks :
        frames[n].stage # "none"
            => \A m \in Ticks : m <= n - 2 => ~Unpresented(m)

\* C9: the command buffer of a frame starts executing only once the frame's
\* acquire future and the token it was joined with are satisfied, and the
\* frame is presented only once its command buffer has finished.
C9_GpuOrdering ==
    [][\A n \in Ticks :
        /\ (frames'[n].stage = "executing" /\ frames[n].stage # "executing")
            => /\ frames[n].stage = "submitted"
               /\ frames[n].acquired
               /\ TokenSatisfied(frames[n].prev)
        /\ (frames'[n].stage = "presented" /\ frames[n].stage # "presented")
            => frames[n].stage = "executed"]_vars

\* A frame chained on the fence of the frame before it has been presented.
C9_Witness ==
    \E n \in Ticks :
        /\ frames[n].stage = "presented"
        /\ frames[n].prev.kind = "fence"

\* C10 (as claimed): in the scenario ticks 1 and 2 acquire, submit and
\* present, tick 3 calls nothing, and tick 4 rebuilds before its acquire.
C10_ScenarioAsClaimed ==
    /\ tick \in {1, 2}
        => /\ lastTick.outcome = "presented"
           /\ Before(lastTick.calls, "acquire_next_image", "then_execute")
           /\ Before(lastTick.calls, "then_execute", "then_swapchain_present")
    /\ tick = 3 => lastTick.calls = <<>>
    /\ tick = 4 => Before(lastTick.calls, "recreate", "acquire_next_image")

\* C10 (amended): in the scenario ticks 1 and 2 acquire, submit and present,
\* tick 3 calls nothing, and tick 4 acquires, submits and presents, with a
\* rebuild before its acquire exactly when the rebuild-pending flag is set
\* when it starts.
C10_ScenarioRebuildsIfPending ==
    [][TickStep
        => /\ tick' \in {1, 2, 4}
                => /\ lastTick'.outcome = "presented"
                   /\ Before(lastTick'.calls, "acquire_next_image",
                             "then_execute")
                   /\ Before(lastTick'.calls, "then_execute",
                             "then_swapchain_present")
           /\ tick' = 3 => lastTick'.calls = <<>>
           /\ tick' = 4
                => (recreate_swapchain
                      <=> Before(lastTick'.calls, "recreate",
                                 "acquire_next_image"))]_vars

\* Tick 4 of the scenario rebuilt and then presented.
C10_Witness ==
    /\ tick = 4
    /\ lastTick.outcome = "presented"
    /\ Before(lastTick.calls, "recreate", "acquire_next_image")

\* C11: a tick that rebuilds ends with the rebuild-pending flag cleared only
\* if the extent of the rebuilt swapchain is the extent the window has when
\* the handler returns.
C11_FlagClearedOnlyIfExtentsMatch ==
    [][(TickStep /\ Has(lastTick'.calls, "recreate") /\ phase' = "running")
        => (~recreate_swapchain' => swapchain'.extent = window_extent')]_vars

\* C12: a tick whose acquire or chain reports OutOfDate returns with the loop
\* running and the rebuild pending; the pending rebuild survives every event
\* and skipped tick; and a tick with a non-zero extent that starts with the
\* rebuild pending calls recreate right after cleanup_finished, before any
\* acquire.
C12_OutOfDateRetriesAfterRebuild ==
    [][IF TickStep /\ ~(window_extent[1] = 0 \/ window_extent[2] = 0)
       THEN /\ lastTick'.outcome \in {"acquireOutOfDate", "flushOutOfDate"}
                => phase' = "running" /\ recreate_swapchain'
            /\ recreate_swapchain
                => /\ Len(lastTick'.calls) >= 2
                   /\ lastTick'.calls[2] = "recreate"
                   /\ \A i \in 1..2 : lastTick'.calls[i] # "acquire_next_image"
       ELSE (recreate_swapchain /\ phase = "running")
                => (recreate_swapchain' /\ phase' \in {"running", "exiting"})]_vars

\* A tick has rebuilt for the second time, acquired and presented, where
\* only out-of-date results ask for a rebuild: two earlier ticks ended out
\* of date, and each time the next tick that was not skipped rebuilt.
C12_Witness ==
    /\ swapchain.gen = 3
    /\ lastTick.outcome = "presented"
    /\ Before(lastTick.calls, "recreate", "acquire_next_image")

\* The swapchain is released once the application has dropped its handle
\* and its image list and the held token holds no frame of it; the device
\* once the application has dropped everything, the token last.
SwapchainReleased ==
    /\ Dropped("images")
    /\ \A n \in retained : frames[n].presentGen # swapchain.gen
DeviceReleased == Dropped("previous_frame_end")

\* C13: the swapchain and the device are released only once the held token
\* has completed and the queue is idle, and the device is not released
\* before the swapchain.
C13_TeardownWaitsThenReleases ==
    /\ (SwapchainReleased \/ DeviceReleased)
        => /\ \A n \in Ticks : frames[n].stage = "none"
           /\ previous_frame_end.kind = "fence"
                => frames[previous_frame_end.frame].stage = "none"
    /\ DeviceReleased => SwapchainReleased

\* The number of times a tick called recreate.
Rebuilds(calls) == Cardinality({i \in 1..Len(calls) : calls[i] = "recreate"})

\* C14: no tick calls recreate more than once; the second tick, which starts
\* after a suboptimal acquire and a Resized event have both asked for a
\* rebuild, calls recreate exactly once, and when it returns the rebuild is
\* pending again only if its own acquire reported suboptimal or its acquire
\* or chain reported OutOfDate.
C14_BothSignalsRebuildOnce ==
    [][TickStep
        => /\ Rebuilds(lastTick'.calls) <= 1
           /\ tick = 1
                => /\ recreate_swapchain
                   /\ Rebuilds(lastTick'.calls) = 1
                   /\ (phase' = "running" /\ recreate_swapchain')
                        => \/ lastTick'.suboptimal
                           \/ lastTick'.outcome
                                \in {"acquireOutOfDate", "flushOutOfDate"}]_vars

\* The second tick has rebuilt once and presented, and no rebuild is pending.
C14_Witness ==
    /\ tick = 2
    /\ lastTick.outcome = "presented"
    /\ Rebuilds(lastTick.calls) = 1
    /\ ~lastTick.suboptimal
    /\ ~recreate_swapchain

\* C15: the image list always belongs to the current swapchain, and every
\* frame a tick hands to the queue renders into the image of the index its
\* acquire returned, taken from the image list of the swapchain that is
\* current when the handler returns, and asks that swapchain to present
\* that index.
C15_SubmissionUsesCurrentSwapchain ==
    [][/\ \A i \in 1..Len(images') :
            images'[i] = [gen |-> swapchain'.gen, index |-> i - 1]
       /\ (TickStep /\ frames'[tick'] # frames[tick'])
            => /\ frames'[tick'].presentGen = swapchain'.gen
               /\ frames'[tick'].presentIndex \in AcquiredImage(swapchain')
               /\ frames'[tick'].target
                    = [gen |-> swapchain'.gen,
                       index |-> frames'[tick'].presentIndex]
               /\ frames'[tick'].target
                    = images'[frames'[tick'].presentIndex + 1]]_vars

\* A frame of the rebuilt swapchain went to the queue while the queue still
\* holds a frame of the superseded one, which uses the same image index.
C15_Witness ==
    /\ tick >= 2
    /\ frames[tick].stage = "submitted"
    /\ frames[tick].presentGen = swapchain.gen
    /\ frames[tick - 1].stage # "none"
    /\ frames[tick - 1].presentGen < swapchain.gen
    /\ frames[tick - 1].presentIndex = frames[tick].presentIndex

\* C16: a tick that rebuilds calls cleanup_finished before recreate, and as
\* long as the process runs every frame on the queue that belongs to a
\* superseded swapchain is held by the token, which keeps the resources the
\* frame uses.
C16_SupersededResourcesRetained ==
    [][/\ (TickStep /\ Has(lastTick'.calls, "recreate"))
            => Before(lastTick'.calls, "cleanup_finished", "recreate")
       /\ phase' # "crashed"
            => \A n \in Ticks :
                 (frames'[n].stage # "none"
                    /\ frames'[n].presentGen # swapchain'.gen)
                   => n \in retained']_vars

\* The tick has rebuilt while the frame of the tick before, rendered into an
\* image of the superseded swapchain, was still on the queue.
C16_Witness ==
    /\ tick >= 2
    /\ Before(lastTick.calls, "cleanup_finished", "recreate")
    /\ frames[tick - 1].stage \in {"submitted", "executing"}
    /\ frames[tick - 1].target.gen = swapchain.gen - 1
    /\ tick - 1 \in retained

\* C17: between two handlers, from the return of resumed on, a token is
\* held: sync::now or the fence future of a frame; after a tick that moved
\* the token into a chain it is the replacement the arm of the chain's
\* result installs.
C17_TokenHeldBetweenHandlers ==
    phase \in {"running", "exiting"}
        => /\ previous_frame_end.kind \in {"now", "fence"}
           /\ lastTick.outcome = "presented"
                => previous_frame_end.kind = "fence"
           /\ lastTick.outcome \in {"flushOutOfDate", "flushFailed"}
                => previous_frame_end.kind = "now"

\* The chain of a tick that had rebuilt failed with an error other than
\* OutOfDate, and sync::now is held.
C17_Witness ==
    /\ phase = "running"
    /\ lastTick.outcome = "flushFailed"
    /\ Has(lastTick.calls, "recreate")
    /\ previous_frame_end.kind = "now"

\* C18: a tick whose rebuild fails, or whose acquire fails with an error
\* other than OutOfDate, ends the process in that tick, having recorded,
\* submitted and presented nothing; and once the process has ended no tick
\* is handled and nothing changes.
C18_RebuildOrAcquireFailureIsFatal ==
    [][/\ (TickStep /\ lastTick'.outcome \in {"rebuildFailed", "acquireFailed"})
            => /\ phase' = "crashed"
               /\ ~Has(lastTick'.calls, "record")
               /\ ~Has(lastTick'.calls, "then_execute")
               /\ ~Has(lastTick'.calls, "then_swapchain_present")
               /\ frames' = frames
               /\ previous_frame_end' = previous_frame_end
       /\ phase = "crashed" => UNCHANGED vars]_vars

\* The acquire after a rebuild failed with another error than OutOfDate,
\* before the last RedrawRequested event that is followed.
C18_Witness ==
    /\ lastTick.outcome = "acquireFailed"
    /\ Has(lastTick.calls, "recreate")
    /\ phase = "crashed"
    /\ tick < MaxTicks

\* C19: once resumed has created them, the swapchain and the image list
\* change only in a tick that starts with the rebuild pending and calls
\* recreate, and change together, to the next generation; the delivery of a
\* Resized event changes the rebuild-pending flag and nothing else of the
\* application's state; CloseRequested changes none of swapchain, image
\* list, token, flag and frames.
C19_OnlyRebuildReplacesSwapchain ==
    [][/\ (phase # "created" /\ (swapchain' # swapchain \/ images' # images))
            => /\ TickStep
               /\ recreate_swapchain
               /\ Has(lastTick'.calls, "recreate")
               /\ swapchain'.gen = swapchain.gen + 1
               /\ \A i \in 1..Len(images') : images'[i].gen = swapchain'.gen
       /\ (TickStep /\ ~Has(lastTick'.calls, "recreate"))
            => swapchain' = swapchain /\ images' = images
       /\ (resizedQueued /\ ~resizedQueued')
            => UNCHANGED <<phase, window_extent, swapchain, images,
                           previous_frame_end, frames, retained, tick,
                           lastTick>>
       /\ (phase = "running" /\ phase' = "exiting")
            => UNCHANGED <<swapchain, images, previous_frame_end,
                           recreate_swapchain, frames, retained, tick>>]_vars

\* A tick rebuilt the swapchain and presented from it, and the window was
\* closed afterwards.
C19_Witness ==
    /\ phase = "exiting"
    /\ swapchain.gen = 2
    /\ Len(images) = NumImages /\ images[1].gen = 2
    /\ lastTick.outcome = "presented"
    /\ Has(lastTick.calls, "recreate")

\* C20: the rebuild-pending flag goes from set to clear only in a tick that
\* calls recreate and gets the next swapchain from it; every other step,
\* and a tick whose rebuild fails, leaves a set flag set.
C20_OnlyRebuildClearsFlag ==
    [][(recreate_swapchain /\ ~recreate_swapchain')
        => /\ TickStep
           /\ ~(window_extent[1] = 0 \/ window_extent[2] = 0)
           /\ Has(lastTick'.calls, "recreate")
           /\ lastTick'.outcome # "rebuildFailed"
           /\ swapchain'.gen = swapchain.gen + 1]_vars

\* The third tick rebuilt and cleared the flag; the second tick, skipped or
\* ended by an out-of-date acquire, had left the token of the first frame
\* and the swapchain alone.
C20_Witness ==
    /\ tick = 3
    /\ swapchain.gen = 2
    /\ frames[3].stage # "none"
    /\ frames[3].prev = [kind |-> "fence", frame |-> 1]
    /\ Has(lastTick.calls, "recreate")
    /\ ~recreate_swapchain
====
